---- MODULE Spec2Model ----
(***************************************************************************)
(* IDSnap app icon generator (src/create-icon.py).                         *)
(*                                                                         *)
(* Two specifications share the operators below:                           *)
(*   Spec       - the batch driver main(): one action per filesystem call  *)
(*                of the loop, run up to MaxRuns times on the same tree;   *)
(*   RenderSpec - one invocation of create_icon(size, output_path), one    *)
(*                action per drawing step, for every size in               *)
(*                1..MaxSize and every size of the fixed table.            *)
(***************************************************************************)
EXTENDS Integers, Sequences, FiniteSets, TLC

VARIABLES
    \* ---- batch driver (main) ----
    pc,        \* position of main: "idle", "makedirs", "icon", "round", "done", "failed"
    run,       \* number of invocations of main started so far
    k,         \* index of the current entry of the sizes table
    dirs,      \* directories that exist (paths)
    files,     \* path -> file content, or Absent
    out,       \* standard output of the current invocation of main
    trace,     \* filesystem / render calls made by the current invocation
    start,     \* dirs and files as they were when the current invocation began
    prevOk,    \* the previous invocation of main ran to completion
    dejavu,    \* the DejaVuSans-Bold font file can be loaded
    arial,     \* the Arial font file can be loaded
    \* ---- one invocation of create_icon ----
    rpc,       \* position inside create_icon
    size,      \* argument size
    i,         \* loop variable of the gradient loop
    shapes,    \* drawing calls made so far: [kind, box, alpha, band]
    overlay,   \* centre column of gradient_overlay: row -> alpha
    img,       \* centre column of img: row -> [badge, dark]
    font,      \* result of font resolution: [font, tried, raised]
    tbox,      \* measured text bounding box <<x0, y0, x1, y1>>
    saved,     \* the image this invocation handed to img.save, or NoImage
    err        \* exception raised by this invocation ("none" when none)

batchVars  == <<pc, run, k, dirs, files, out, trace, start, prevOk>>
envVars    == <<dejavu, arial>>
renderVars == <<rpc, size, i, shapes, overlay, img, font, tbox, saved, err>>
vars       == <<pc, run, k, dirs, files, out, trace, start, prevOk, dejavu, arial,
                rpc, size, i, shapes, overlay, img, font, tbox, saved, err>>

----------------------------------------------------------------------------
(* Bounds of the model.                                                    *)

MaxRuns == 2
MaxSize == 40
MaxTextH == 12
MaxTextW == 2

----------------------------------------------------------------------------
(* Integer helpers.                                                        *)

Max(a, b) == IF a >= b THEN a ELSE b
Min(a, b) == IF a <= b THEN a ELSE b

\* Python's floor division a // b for b > 0 (also for negative a).
FloorDiv(a, b) == IF a >= 0 THEN a \div b ELSE -((-a + b - 1) \div b)

----------------------------------------------------------------------------
(* IEEE-754 binary64 arithmetic, as far as line 31 uses it: the quotient   *)
(* of two small non-negative integers, the product of a double by a small  *)
(* integer, and truncation to an integer.  The 53-bit significand of a     *)
(* positive double is a leading 1 followed by four limbs of 13 bits:       *)
(*   [m |-> <<l1, l2, l3, l4>>, e |-> exponent of the leading bit]         *)
(* stands for (2^52 + l1*2^39 + l2*2^26 + l3*2^13 + l4) * 2^(e - 52).      *)
(* Zero is FZero.  No operation here leaves the normal range.              *)

RECURSIVE Pow2(_)
Pow2(n) == IF n = 0 THEN 1 ELSE 2 * Pow2(n - 1)

Limb == Pow2(13)

FZero == [m |-> <<>>, e |-> 0]

\* floor(log2(n / h)) for n, h >= 1.
RECURSIVE Log2Ratio(_, _)
Log2Ratio(n, h) ==
    IF n >= h
    THEN (IF n >= 2 * h THEN 1 + Log2Ratio(n, 2 * h) ELSE 0)
    ELSE Log2Ratio(2 * n, h) - 1

\* Rounding toward zero.
RoundTowardZero(lastBit, rem, den) == FALSE

\* Rounding to nearest, ties to even: whether a significand whose last bit
\* is lastBit goes one unit up when the discarded part is rem / den of a unit.
RoundUp(lastBit, rem, den) ==
    2 * rem > den \/ (2 * rem = den /\ lastBit = 1)

\* The double with limbs m and exponent e, one unit in the last place up
\* when up holds (the carry runs through the limbs into the exponent).
Rounded(m, e, up) ==
    IF ~up THEN [m |-> m, e |-> e]
    ELSE LET s4 == m[4] + 1
             s3 == m[3] + s4 \div Limb
             s2 == m[2] + s3 \div Limb
             s1 == m[1] + s2 \div Limb
         IN  IF s1 >= Limb
             THEN [m |-> <<0, 0, 0, 0>>, e |-> e + 1]
             ELSE [m |-> <<s1, s2 % Limb, s3 % Limb, s4 % Limb>>, e |-> e]

\* n / h as Python's true division of ints computes it (n >= 0, h >= 1,
\* both small): long division, one limb of quotient bits at a time.
FDiv(n, h) ==
    IF n = 0 THEN FZero
    ELSE LET e   == Log2Ratio(n, h)
             num == IF e >= 0 THEN n ELSE n * Pow2(-e)
             den == IF e >= 0 THEN h * Pow2(e) ELSE h
             r0  == num - den
             l1  == (r0 * Limb) \div den
             r1  == (r0 * Limb) % den
             l2  == (r1 * Limb) \div den
             r2  == (r1 * Limb) % den
             l3  == (r2 * Limb) \div den
             r3  == (r2 * Limb) % den
             l4  == (r3 * Limb) \div den
             r4  == (r3 * Limb) % den
         IN  Rounded(<<l1, l2, l3, l4>>, e, RoundUp(l4 % 2, r4, den))

\* c * f for a small integer c >= 1 (c itself is exactly representable).
FMulInt(c, f) ==
    IF f = FZero THEN FZero
    ELSE LET \* the exact product, top part t and four limbs
             p4 == f.m[4] * c
             p3 == f.m[3] * c + p4 \div Limb
             p2 == f.m[2] * c + p3 \div Limb
             p1 == f.m[1] * c + p2 \div Limb
             t  == c + p1 \div Limb
             \* t has sh + 1 bits: the product is shifted right by sh
             sh == Log2Ratio(t, 1)
             w  == Pow2(sh)
             up == Limb \div w
             q1 == (t % w) * up + (p1 % Limb) \div w
             q2 == ((p1 % Limb) % w) * up + (p2 % Limb) \div w
             q3 == ((p2 % Limb) % w) * up + (p3 % Limb) \div w
             q4 == ((p3 % Limb) % w) * up + (p4 % Limb) \div w
             dropped == (p4 % Limb) % w
         IN  Rounded(<<q1, q2, q3, q4>>, f.e + sh, RoundUp(q4 % 2, dropped, w))

\* int(f): truncation toward zero of a double 0 <= f < 2^14.
FToInt(f) ==
    IF f = FZero \/ f.e < 0 THEN 0
    ELSE (Limb + f.m[1]) \div Pow2(13 - f.e)

----------------------------------------------------------------------------
(* Geometry of create_icon: every quantity is an integer function of size  *)
(* (and of the measured text box).                                         *)

Margin(s) == s \div 20

BadgeBox(s) == <<Margin(s), Margin(s), s - Margin(s), s - Margin(s)>>

\* A loop that runs one band more for odd sizes.
BandCountRoundedUp(s) == (s + 1) \div 2

\* range(size//2): the number of gradient bands.
BandCount(s) == s \div 2

\* size//2, the divisor of line 31.
HalfSize(s) == s \div 2

\* alpha = int(30 * (i / (size//2)))
Alpha(s, b) == FToInt(FMulInt(30, FDiv(b, HalfSize(s))))

\* Bands that start at the vertical middle of the canvas.
GradientBoxLowerHalf(s, b) ==
    <<Margin(s), Min(s \div 2 + b, s - Margin(s)), s - Margin(s), s - Margin(s)>>

GradientBox(s, b) == <<Margin(s), Margin(s) + b, s - Margin(s), s - Margin(s)>>

TextWidth(bbox) == bbox[3] - bbox[1]
TextHeight(bbox) == bbox[4] - bbox[2]

TextX(s, bbox) == FloorDiv(s - TextWidth(bbox), 2)
TextY(s, bbox) == FloorDiv(s - TextHeight(bbox), 2) - s \div 12

ShadowOffset(s) == Max(1, s \div 100)

CamSize(s) == s \div 6
CamX(s) == (s - CamSize(s)) \div 2
CamY(s, bbox) == TextY(s, bbox) + TextHeight(bbox) + s \div 20

\* A square camera body.
CamBoxSquare(s, bbox) ==
    <<CamX(s), CamY(s, bbox), CamX(s) + CamSize(s), CamY(s, bbox) + CamSize(s)>>

CamBox(s, bbox) ==
    <<CamX(s), CamY(s, bbox), CamX(s) + CamSize(s), CamY(s, bbox) + CamSize(s) \div 2>>

LensSize(s) == CamSize(s) \div 3
LensX(s) == CamX(s) + (CamSize(s) - LensSize(s)) \div 2
LensY(s, bbox) == CamY(s, bbox) + FloorDiv(CamSize(s) \div 2 - LensSize(s), 2)

LensBox(s, bbox) ==
    <<LensX(s), LensY(s, bbox), LensX(s) + LensSize(s), LensY(s, bbox) + LensSize(s)>>

WellFormed(box) == box[1] <= box[3] /\ box[2] <= box[4]

\* Lines 22-33 raise: the division of line 31 by zero, or an ellipse given
\* a box with x1 < x0 or y1 < y0.
BadgeRaises(s) ==
    \/ BandCount(s) > 0 /\ HalfSize(s) = 0
    \/ ~WellFormed(BadgeBox(s))
    \/ \E b \in 0..(BandCount(s) - 1) : ~WellFormed(GradientBox(s, b))

\* Lines 69-82 raise: the rectangle or the ellipse is given such a box.
CameraRaises(s, bbox) ==
    ~WellFormed(CamBox(s, bbox)) \/ ~WellFormed(LensBox(s, bbox))

----------------------------------------------------------------------------
(* Font resolution (lines 41-49): nested try/except around the loaders.    *)

DejaVu == "DejaVuSans-Bold.ttf"
Arial == "Arial.ttf"
Default == "load_default"

NoFont == [font |-> "", tried |-> <<>>, raised |-> FALSE]

\* ImageFont.truetype / ImageFont.load_default: whether the call returns a
\* font (TRUE) or raises.  The built-in font needs no file.
Loads(c, dj, ar) ==
    CASE c = DejaVu -> dj
      [] c = Arial -> ar
      [] c = Default -> TRUE

\* The bare "except:" clauses catch whatever the first two loaders raise;
\* load_default() is called outside any try.
ResolveFontNoInnerTry(dj, ar) ==
    IF Loads(DejaVu, dj, ar)
    THEN [font |-> DejaVu, tried |-> <<DejaVu>>, raised |-> FALSE]
    ELSE IF Loads(Arial, dj, ar)
    THEN [font |-> Arial, tried |-> <<DejaVu, Arial>>, raised |-> FALSE]
    ELSE [font |-> "", tried |-> <<DejaVu, Arial>>, raised |-> TRUE]

ResolveFont(dj, ar) ==
    IF Loads(DejaVu, dj, ar)
    THEN [font |-> DejaVu, tried |-> <<DejaVu>>, raised |-> FALSE]
    ELSE IF Loads(Arial, dj, ar)
    THEN [font |-> Arial, tried |-> <<DejaVu, Arial>>, raised |-> FALSE]
    ELSE IF Loads(Default, dj, ar)
    THEN [font |-> Default, tried |-> <<DejaVu, Arial, Default>>, raised |-> FALSE]
    ELSE [font |-> "", tried |-> <<DejaVu, Arial, Default>>, raised |-> TRUE]

\* The measurements draw.textbbox((0, 0), "ID", font) may return.
TextBoxes == {<<0, 0, w, h>> : w \in 0..MaxTextW, h \in 0..MaxTextH}

----------------------------------------------------------------------------
(* The filesystem: paths are sequences of components.                      *)

BasePath == <<"android", "app", "src", "main", "res">>

\* The sizes dict of main, in insertion order.
Table == << [folder |-> "mipmap-mdpi",    size |-> 48],
            [folder |-> "mipmap-hdpi",    size |-> 72],
            [folder |-> "mipmap-xhdpi",   size |-> 96],
            [folder |-> "mipmap-xxhdpi",  size |-> 144],
            [folder |-> "mipmap-xxxhdpi", size |-> 192] >>

TableSizes == {Table[j].size : j \in 1..Len(Table)}

IconName == "ic_launcher.png"
RoundNameSameAsIcon == "ic_launcher.png"
RoundName == "ic_launcher_round.png"

\* os.path.join
Join(path, name) == Append(path, name)

Parent(path) == SubSeq(path, 1, Len(path) - 1)

FolderPath(j) == Join(BasePath, Table[j].folder)
IconPath(j) == Join(FolderPath(j), IconName)
RoundPath(j) == Join(FolderPath(j), RoundName)

\* The file names the model follows in each folder: the two the driver
\* writes and one standing for any other file.
AllPaths ==
    {Join(FolderPath(j), n) : j \in 1..Len(Table), n \in {IconName, RoundName, "other"}}

Absent == [kind |-> "absent", size |-> 0, font |-> "", mtime |-> 0]

\* A file that was opened for writing and not written to the end.
Truncated(now) == [kind |-> "truncated", size |-> 0, font |-> "", mtime |-> now]

\* The PNG img.save writes: size x size pixels, lettered in font f.
Png(s, f, now) == [kind |-> "png", size |-> s, font |-> f, mtime |-> now]

Prefixes(path) == {SubSeq(path, 1, n) : n \in 1..Len(path)}

\* os.makedirs(path) without exist_ok: an existing leaf raises FileExistsError.
MakeDirsNotExistOk(ds, path, depth) ==
    LET missing == {q \in Prefixes(path) : q \notin ds}
    IN  [raised |-> path \in ds \/ \E q \in missing : Len(q) > depth,
         dirs   |-> ds \cup {q \in missing : Len(q) <= depth}]

\* os.makedirs(path, exist_ok=True).  The missing components are created
\* from the root down; the environment lets mkdir succeed down to depth
\* (depth = Len(path): no failure).  Components that exist are not created
\* again, so an existing path raises nothing.
MakeDirs(ds, path, depth) ==
    LET missing == {q \in Prefixes(path) : q \notin ds}
    IN  [raised |-> \E q \in missing : Len(q) > depth,
         dirs   |-> ds \cup {q \in missing : Len(q) <= depth}]

SaveFaults == {"ok", "open", "write"}

\* A save that leaves its image in every file of the target directory.
SaveWholeFolder(ds, fs, path, image, fault) ==
    IF Parent(path) \notin ds \/ fault # "ok"
    THEN [raised |-> TRUE, files |-> fs]
    ELSE [raised |-> FALSE,
          files  |-> [q \in DOMAIN fs |-> IF Parent(q) = Parent(path) THEN image ELSE fs[q]]]

\* img.save(output_path, 'PNG'): opens the file for writing (truncating
\* it), encodes, closes.  The open fails when the directory is missing or
\* when the environment refuses it (fault "open"); a failure while writing
\* (fault "write") removes a file this call created and leaves a file that
\* was already there truncated.
Save(ds, fs, path, image, fault) ==
    IF Parent(path) \notin ds \/ fault = "open"
    THEN [raised |-> TRUE, files |-> fs]
    ELSE IF fault = "write"
    THEN [raised |-> TRUE,
          files  |-> IF fs[path] = Absent THEN fs
                     ELSE [fs EXCEPT ![path] = Truncated(image.mtime)]]
    ELSE [raised |-> FALSE, files |-> [fs EXCEPT ![path] = image]]

\* create_icon(size, output_path) as one call: draw the badge, resolve the
\* font, measure and draw the text, draw the camera, save.  badge and
\* camera tell whether those drawing steps raised.
CreateIcon(ds, fs, s, path, dj, ar, badge, camera, fault, now) ==
    LET f == ResolveFont(dj, ar)
    IN  IF badge \/ f.raised \/ camera
        THEN [raised |-> TRUE, files |-> fs]
        ELSE Save(ds, fs, path, Png(s, f.font, now), fault)

----------------------------------------------------------------------------
(* The batch driver main().                                                *)

NoFiles == [q \in AllPaths |-> Absent]

EmptyRoot == [dirs |-> {}, files |-> NoFiles]

Line(text, path, s) == [line |-> text, path |-> path, size |-> s]

\* A call main made: existed tells whether its target was there before,
\* fault whether the environment made a system call of it fail.
Call(op, path, s, existed, fault, raised) ==
    [op |-> op, path |-> path, size |-> s, existed |-> existed,
     fault |-> fault, raised |-> raised]

\* A loop that goes on to the next folder after the standard icon.
AdvanceSkipsRound(p, j) ==
    CASE p = "makedirs" -> <<"icon", j>>
      [] p = "icon"     -> IF j < Len(Table) THEN <<"makedirs", j + 1>> ELSE <<"done", j>>
      [] p = "round"    -> IF j < Len(Table) THEN <<"makedirs", j + 1>> ELSE <<"done", j>>

\* The position after the call at position p of table entry j returned.
Advance(p, j) ==
    CASE p = "makedirs" -> <<"icon", j>>
      [] p = "icon"     -> <<"round", j>>
      [] p = "round"    -> IF j < Len(Table) THEN <<"makedirs", j + 1>> ELSE <<"done", j>>

\* A driver that catches the exception and carries on.
AfterCallSwallows(raised, p, j) == Advance(p, j)

\* An exception is not caught anywhere in main: it ends the invocation.
AfterCall(raised, p, j) == IF raised THEN <<"failed", j>> ELSE Advance(p, j)

BatchIdle ==
    /\ pc = "idle" /\ run = 0 /\ k = 0
    /\ dirs = {} /\ files = NoFiles
    /\ out = <<>> /\ trace = <<>>
    /\ start = EmptyRoot /\ prevOk = FALSE

RenderOff ==
    /\ rpc = "off" /\ size = 0 /\ i = 0
    /\ shapes = <<>> /\ overlay = <<>> /\ img = <<>>
    /\ font = NoFont /\ tbox = <<0, 0, 0, 0>>
    /\ saved = Absent /\ err = "none"

Init ==
    /\ BatchIdle
    /\ dejavu \in BOOLEAN /\ arial \in BOOLEAN
    /\ RenderOff

\* python create-icon.py: main() starts (lines 88-103), on whatever an
\* earlier invocation left on disk.
StartMain ==
    /\ pc \in {"idle", "done", "failed"}
    /\ run < MaxRuns
    /\ run' = run + 1
    /\ k' = 1
    /\ pc' = "makedirs"
    /\ out' = <<Line("Generating IDSnap app icons...", <<>>, 0)>>
    /\ trace' = <<>>
    /\ start' = [dirs |-> dirs, files |-> files]
    /\ prevOk' = (pc = "done")
    /\ UNCHANGED <<dirs, files>>
    /\ UNCHANGED envVars /\ UNCHANGED renderVars

\* os.makedirs(folder_path, exist_ok=True), line 107.
MakeDirsStep ==
    /\ pc = "makedirs"
    /\ \E depth \in 0..Len(FolderPath(k)) :
         LET r    == MakeDirs(dirs, FolderPath(k), depth)
             next == AfterCall(r.raised, pc, k)
         IN  /\ dirs' = r.dirs
             /\ trace' = Append(trace, Call("makedirs", FolderPath(k), 0,
                                            FolderPath(k) \in dirs,
                                            depth < Len(FolderPath(k)), r.raised))
             /\ pc' = next[1]
             /\ k' = next[2]
    /\ UNCHANGED <<run, files, out, start, prevOk>>
    /\ UNCHANGED envVars /\ UNCHANGED renderVars

\* Whether lines 22-33 raise, for each size of the table.
TableBadgeRaises == [j \in 1..Len(Table) |-> BadgeRaises(Table[j].size)]

\* Whether lines 69-82 raise, for each size of the table: the outcomes over
\* the text measurements.
TableCameraRaises ==
    [j \in 1..Len(Table) |-> {CameraRaises(Table[j].size, bbox) : bbox \in TextBoxes}]

\* create_icon(size, path) called from main, with its print (line 86) and,
\* after the last one, the closing lines of main (lines 117-123).
Render(path) ==
    \E badge  \in {TableBadgeRaises[k]},
       camera \in TableCameraRaises[k],
       fault  \in SaveFaults :
        LET s    == Table[k].size
            r    == CreateIcon(dirs, files, s, path, dejavu, arial,
                               badge, camera, fault, run)
            next == AfterCall(r.raised, pc, k)
            o1   == IF r.raised THEN out ELSE Append(out, Line("Created icon", path, s))
        IN  /\ files' = r.files
            /\ trace' = Append(trace, Call("create_icon", path, s,
                                           files[path] # Absent, fault # "ok", r.raised))
            /\ pc' = next[1]
            /\ k' = next[2]
            /\ out' = IF next[1] = "done"
                      THEN Append(o1, Line("All icons generated successfully!", <<>>, 0))
                      ELSE o1

\* Lines 110-111.
IconStep ==
    /\ pc = "icon"
    /\ Render(IconPath(k))
    /\ UNCHANGED <<run, dirs, start, prevOk>>
    /\ UNCHANGED envVars /\ UNCHANGED renderVars

\* Lines 114-115.
RoundStep ==
    /\ pc = "round"
    /\ Render(RoundPath(k))
    /\ UNCHANGED <<run, dirs, start, prevOk>>
    /\ UNCHANGED envVars /\ UNCHANGED renderVars

Next == StartMain \/ MakeDirsStep \/ IconStep \/ RoundStep

Spec == Init /\ [][Next]_vars

----------------------------------------------------------------------------
(* One invocation of create_icon, step by step.  The canvas is followed    *)
(* along its centre column x = size // 2: an ellipse or rectangle with box *)
(* <<x0, y0, x1, y1>> covers the rows y0..y1 of that column.               *)

RenderSizes == (1..MaxSize) \cup TableSizes

Rows(s) == 0..(s - 1)

Covers(box, y) == box[2] <= y /\ y <= box[4]

Shape(kind, box, alpha, band) == [kind |-> kind, box |-> box, alpha |-> alpha, band |-> band]

NoPixel == [badge |-> FALSE, dark |-> 0]

RenderInit ==
    /\ BatchIdle
    /\ dejavu \in BOOLEAN /\ arial \in BOOLEAN
    /\ size \in RenderSizes
    /\ rpc = "badge" /\ i = 0
    /\ shapes = <<>>
    /\ overlay = [y \in Rows(size) |-> 0]
    /\ img = [y \in Rows(size) |-> NoPixel]
    /\ font = NoFont /\ tbox = <<0, 0, 0, 0>>
    /\ saved = Absent /\ err = "none"

\* What a shape primitive does with its box: a box with x1 < x0 or y1 < y0
\* is refused with ValueError.
Refused(box) == ~WellFormed(box)

\* Lines 14-24: new canvas, badge circle.
DrawBadge ==
    /\ rpc = "badge"
    /\ shapes' = Append(shapes, Shape("badge", BadgeBox(size), 255, 0))
    /\ IF Refused(BadgeBox(size))
       THEN /\ rpc' = "raised" /\ err' = "ValueError" /\ UNCHANGED img
       ELSE /\ rpc' = "gradient" /\ UNCHANGED err
            /\ img' = [y \in Rows(size) |->
                          IF Covers(BadgeBox(size), y)
                          THEN [badge |-> TRUE, dark |-> 0] ELSE img[y]]
    /\ i' = 0
    /\ UNCHANGED <<size, overlay, font, tbox, saved>>
    /\ UNCHANGED batchVars /\ UNCHANGED envVars

\* Lines 30-33: one pass of the gradient loop.  ImageDraw replaces the
\* pixels it covers; it does not blend them.
GradientBand ==
    /\ rpc = "gradient"
    /\ i < BandCount(size)
    /\ IF HalfSize(size) = 0
       THEN /\ rpc' = "raised" /\ err' = "ZeroDivisionError"
            /\ UNCHANGED <<shapes, overlay, i>>
       ELSE LET alpha == Alpha(size, i)
                box   == GradientBox(size, i)
            IN  /\ shapes' = Append(shapes, Shape("gradient", box, alpha, i))
                /\ IF Refused(box)
                   THEN /\ rpc' = "raised" /\ err' = "ValueError"
                        /\ UNCHANGED <<overlay, i>>
                   ELSE /\ overlay' = [y \in Rows(size) |->
                                          IF Covers(box, y) THEN alpha ELSE overlay[y]]
                        /\ i' = i + 1
                        /\ UNCHANGED <<rpc, err>>
    /\ UNCHANGED <<size, img, font, tbox, saved>>
    /\ UNCHANGED batchVars /\ UNCHANGED envVars

\* Line 35: img = Image.alpha_composite(img, gradient_overlay).
Composite ==
    /\ rpc = "gradient"
    /\ i >= BandCount(size)
    /\ img' = [y \in Rows(size) |-> [badge |-> img[y].badge, dark |-> overlay[y]]]
    /\ rpc' = "font"
    /\ UNCHANGED <<size, i, shapes, overlay, font, tbox, saved, err>>
    /\ UNCHANGED batchVars /\ UNCHANGED envVars

\* Lines 39-49.
LoadFont ==
    /\ rpc = "font"
    /\ font' = ResolveFont(dejavu, arial)
    /\ IF font'.raised
       THEN rpc' = "raised" /\ err' = "OSError"
       ELSE rpc' = "measure" /\ UNCHANGED err
    /\ UNCHANGED <<size, i, shapes, overlay, img, tbox, saved>>
    /\ UNCHANGED batchVars /\ UNCHANGED envVars

\* Lines 52-66: measure "ID", draw its shadow, draw it.
DrawText ==
    /\ rpc = "measure"
    /\ \E bbox \in TextBoxes :
         /\ tbox' = bbox
         /\ shapes' = shapes \o
              << Shape("shadow", <<TextX(size, bbox) + ShadowOffset(size),
                                   TextY(size, bbox) + ShadowOffset(size)>>, 100, 0),
                 Shape("text", <<TextX(size, bbox), TextY(size, bbox)>>, 255, 0) >>
    /\ rpc' = "camera"
    /\ UNCHANGED <<size, i, overlay, img, font, saved, err>>
    /\ UNCHANGED batchVars /\ UNCHANGED envVars

\* Lines 69-82: camera body, then lens.
DrawCamera ==
    /\ rpc = "camera"
    /\ IF Refused(CamBox(size, tbox))
       THEN /\ shapes' = Append(shapes, Shape("camera", CamBox(size, tbox), 255, 0))
            /\ rpc' = "raised" /\ err' = "ValueError"
       ELSE /\ shapes' = shapes \o << Shape("camera", CamBox(size, tbox), 255, 0),
                                      Shape("lens", LensBox(size, tbox), 150, 0) >>
            /\ IF Refused(LensBox(size, tbox))
               THEN rpc' = "raised" /\ err' = "ValueError"
               ELSE rpc' = "save" /\ UNCHANGED err
    /\ UNCHANGED <<size, i, overlay, img, font, tbox, saved>>
    /\ UNCHANGED batchVars /\ UNCHANGED envVars

\* Lines 85-86.
SaveStep ==
    /\ rpc = "save"
    /\ saved' = Png(size, font.font, 0)
    /\ rpc' = "done"
    /\ UNCHANGED <<size, i, shapes, overlay, img, font, tbox, err>>
    /\ UNCHANGED batchVars /\ UNCHANGED envVars

RenderNext ==
    DrawBadge \/ GradientBand \/ Composite \/ LoadFont \/ DrawText \/ DrawCamera \/ SaveStep

RenderSpec == RenderInit /\ [][RenderNext]_vars

----------------------------------------------------------------------------
(* Properties of the batch driver (checked under Spec).                    *)

\* The calls of a complete invocation of main, in order: for each table
\* entry makedirs, the standard icon, the round icon.
StepCount == 3 * Len(Table)

StepEntry(n) == ((n - 1) \div 3) + 1

StepOp(n) == IF (n - 1) % 3 = 0 THEN "makedirs" ELSE "create_icon"

StepPath(n) ==
    CASE (n - 1) % 3 = 0 -> FolderPath(StepEntry(n))
      [] (n - 1) % 3 = 1 -> Join(FolderPath(StepEntry(n)), "ic_launcher.png")
      [] (n - 1) % 3 = 2 -> Join(FolderPath(StepEntry(n)), "ic_launcher_round.png")

StepSize(n) == IF StepOp(n) = "makedirs" THEN 0 ELSE Table[StepEntry(n)].size

TraceInOrder ==
    /\ Len(trace) <= StepCount
    /\ \A n \in 1..Len(trace) :
         /\ trace[n].op = StepOp(n)
         /\ trace[n].path = StepPath(n)
         /\ trace[n].size = StepSize(n)

Present(fs) == {q \in DOMAIN fs : fs[q] # Absent}

\* The font the environment resolves to.
EnvFont == IF dejavu THEN DejaVu ELSE IF arial THEN Arial ELSE Default

TableFolders == {FolderPath(j) : j \in 1..Len(Table)}

\* C1: a complete run of main on an empty output root leaves exactly the
\* five mipmap directories under android/app/src/main/res and exactly ten
\* files, ic_launcher.png and ic_launcher_round.png in each, every file an
\* image of the pixel size the table gives its directory.
C1_EmptyRootRun ==
    (pc = "done" /\ start = EmptyRoot) =>
        /\ {d \in dirs : Len(d) > Len(BasePath)} = TableFolders
        /\ Cardinality({d \in dirs : Len(d) > Len(BasePath)}) = 5
        /\ Cardinality(Present(files)) = 10
        /\ \A j \in 1..Len(Table) :
             \A n \in {"ic_launcher.png", "ic_launcher_round.png"} :
                 /\ files[Join(FolderPath(j), n)].kind = "png"
                 /\ files[Join(FolderPath(j), n)].size = <<48, 72, 96, 144, 192>>[j]

C1_Witness == pc = "done" /\ run = 1 /\ start = EmptyRoot

\* C2 as stated: when a makedirs or a save fails the batch stops there, the
\* files of the earlier steps are present as written, no later directory
\* is created, and the files of the failed and of the later steps are absent.
C2_LaterFilesAbsent ==
    pc = "failed" =>
        /\ TraceInOrder
        /\ \A n \in 1..(Len(trace) - 1) :
             StepOp(n) = "create_icon" =>
                 files[StepPath(n)] = Png(StepSize(n), EnvFont, run)
        /\ \A n \in Len(trace)..StepCount :
             StepOp(n) = "create_icon" => files[StepPath(n)] = Absent
        /\ \A n \in (Len(trace) + 1)..StepCount :
             StepOp(n) = "makedirs" =>
                 (StepPath(n) \in dirs <=> StepPath(n) \in start.dirs)

\* C2, amended: a call that raises is the last call of the invocation; the
\* files of the earlier steps are present as those steps wrote them; the
\* directories and files of the later steps are as they were when the
\* invocation began; the file of the failed step is as it was then, or is
\* left incomplete.
C2_FailureStops ==
    /\ TraceInOrder
    /\ \A n \in 1..Len(trace) :
         trace[n].raised => (n = Len(trace) /\ pc = "failed")
    /\ pc = "failed" => (Len(trace) > 0 /\ trace[Len(trace)].raised)
    /\ \A n \in 1..Len(trace) :
         (StepOp(n) = "create_icon" /\ ~trace[n].raised) =>
             files[StepPath(n)] = Png(StepSize(n), EnvFont, run)
    /\ \A n \in 1..Len(trace) :
         (StepOp(n) = "create_icon" /\ trace[n].raised) =>
             \/ files[StepPath(n)] = start.files[StepPath(n)]
             \/ files[StepPath(n)].kind = "truncated"
    /\ \A n \in (Len(trace) + 1)..StepCount :
         /\ StepOp(n) = "create_icon" => files[StepPath(n)] = start.files[StepPath(n)]
         /\ StepOp(n) = "makedirs" =>
                (StepPath(n) \in dirs <=> StepPath(n) \in start.dirs)

\* A second invocation fails at the save of the round icon of the second
\* folder, after three files were rewritten.
C2_Witness ==
    /\ pc = "failed" /\ run = 2 /\ prevOk
    /\ Len(trace) = 6
    /\ files[StepPath(2)].mtime = 2
    /\ files[StepPath(9)].mtime = 1

\* C4: a second run of main on the tree the first one left raises nothing
\* of its own: makedirs on a directory that exists raises no error, a call
\* raises only when the environment fails it, every one of the ten files is
\* overwritten, and the directories and files after the second run are
\* those after the first.
C4_RerunSucceeds ==
    /\ \A n \in 1..Len(trace) :
         /\ (trace[n].op = "makedirs" /\ trace[n].existed) => ~trace[n].raised
         /\ trace[n].raised => trace[n].fault
    /\ (pc = "done" /\ prevOk) =>
         /\ dirs = start.dirs
         /\ Present(files) = Present(start.files)
         /\ \A n \in 1..Len(trace) : trace[n].existed /\ ~trace[n].raised
         /\ \A q \in Present(files) : files[q].kind = "png" /\ files[q].mtime = run

C4_Witness == pc = "done" /\ run = 2 /\ prevOk /\ Cardinality(Present(files)) = 10

\* The frame of a call of create_icon(size, output_path): it changes no directory and no
\* file other than output_path, and when it completes the file holds the
\* image of that size in the font the environment provides, whatever was
\* rendered before.
RenderFrame ==
    pc \in {"icon", "round"} =>
        LET path == IF pc = "icon" THEN IconPath(k) ELSE RoundPath(k)
        IN  /\ dirs' = dirs
            /\ \A q \in AllPaths \ {path} : files'[q] = files[q]
            /\ pc' # "failed" =>
                   files'[path] = Png(Table[k].size, EnvFont, run)
            /\ pc' = "failed" =>
                   (files'[path] = files[path] \/ files'[path].kind = "truncated")

\* C5: every step of the driver that is a call of create_icon satisfies the
\* frame condition above: one file written, nothing else changed.
C5_OneFilePerRender == [][RenderFrame]_vars

\* The round icon of the third folder has just been rewritten by a second
\* run, next to the files of the first run.
C5_Witness ==
    /\ run = 2 /\ pc = "makedirs" /\ k = 4
    /\ files[RoundPath(3)].mtime = 2
    /\ files[IconPath(4)].mtime = 1

\* C6: main makes its calls one after another in table order, for each
\* entry makedirs, then the standard icon, then the round icon of the same
\* size; a render happens only after the makedirs of its directory
\* returned; a completed run has made exactly ten renders, two per entry,
\* and reported them in that order.
C6_TableOrder ==
    /\ TraceInOrder
    /\ \A n \in 1..Len(trace) :
         trace[n].op = "create_icon" =>
             /\ Parent(trace[n].path) \in dirs
             /\ \E m \in 1..(n - 1) :
                  /\ trace[m].op = "makedirs"
                  /\ trace[m].path = Parent(trace[n].path)
                  /\ ~trace[m].raised
    /\ pc \in {"makedirs", "icon", "round"} =>
         Len(trace) = 3 * (k - 1) + (CASE pc = "makedirs" -> 0 [] pc = "icon" -> 1 [] pc = "round" -> 2)
    /\ pc = "done" =>
         /\ Len(trace) = StepCount
         /\ Cardinality({n \in 1..Len(trace) : trace[n].op = "create_icon"}) = 10
         /\ \A j \in 1..Len(Table) :
              /\ trace[3 * j - 1].path = Join(FolderPath(j), "ic_launcher.png")
              /\ trace[3 * j].path = Join(FolderPath(j), "ic_launcher_round.png")
              /\ trace[3 * j - 1].size = trace[3 * j].size
         /\ Len(out) = 12
         /\ \A m \in 1..10 :
              /\ out[m + 1].line = "Created icon"
              /\ out[m + 1].path = StepPath(m + (m + 1) \div 2)
              /\ out[m + 1].size = StepSize(m + (m + 1) \div 2)

C6_Witness == pc = "done" /\ Len(trace) = 15 /\ Len(out) = 12

----------------------------------------------------------------------------
(* Properties of create_icon (checked under RenderSpec).                   *)

Drawn(kind) == {n \in 1..Len(shapes) : shapes[n].kind = kind}

Width(box) == box[3] - box[1]
Height(box) == box[4] - box[2]

Inside(inner, outer) ==
    /\ outer[1] <= inner[1] /\ inner[3] <= outer[3]
    /\ outer[2] <= inner[2] /\ inner[4] <= outer[4]

\* C3: the font is looked for in the fixed order DejaVuSans-Bold, Arial,
\* built-in default; the first candidate that loads is used and no later
\* one is tried; whatever font files are missing a font is resolved and no
\* font-lookup failure leaves create_icon.
C3_FontFallback ==
    /\ err # "OSError"
    /\ rpc \in {"measure", "camera", "save", "done"} => font # NoFont
    /\ font # NoFont =>
         /\ ~font.raised
         /\ Len(font.tried) \in 1..3
         /\ \A n \in 1..Len(font.tried) : font.tried[n] = <<DejaVu, Arial, Default>>[n]
         /\ font.font = font.tried[Len(font.tried)]
         /\ font.font = DejaVu <=> dejavu
         /\ font.font = Arial <=> (~dejavu /\ arial)
         /\ font.font = Default <=> (~dejavu /\ ~arial)
    /\ rpc = "done" => saved.font = font.font

C3_Witness ==
    /\ rpc = "done" /\ ~dejavu /\ ~arial
    /\ font.font = Default /\ Len(font.tried) = 3

\* C7 as stated: the camera-body rectangle has side size // 6 in width and
\* in height, the lens circle has diameter (size // 6) // 3.
C7_SquareBody ==
    /\ \A n \in Drawn("camera") :
         /\ Width(shapes[n].box) = size \div 6
         /\ Height(shapes[n].box) = size \div 6
    /\ \A n \in Drawn("lens") :
         /\ Width(shapes[n].box) = (size \div 6) \div 3
         /\ Height(shapes[n].box) = (size \div 6) \div 3

\* C7, amended: the camera-body rectangle is size // 6 wide and
\* (size // 6) // 2 high, the lens circle has diameter (size // 6) // 3.
C7_CameraGeometry ==
    /\ rpc \in {"save", "done"} =>
         (Cardinality(Drawn("camera")) = 1 /\ Cardinality(Drawn("lens")) = 1)
    /\ \A n \in Drawn("camera") :
         /\ Width(shapes[n].box) = size \div 6
         /\ Height(shapes[n].box) = (size \div 6) \div 2
    /\ \A n \in Drawn("lens") :
         /\ Width(shapes[n].box) = (size \div 6) \div 3
         /\ Height(shapes[n].box) = (size \div 6) \div 3

C7_Witness ==
    /\ rpc = "done" /\ size = 192
    /\ \E n \in Drawn("camera") : Width(shapes[n].box) = 32 /\ Height(shapes[n].box) = 16

\* C8: for every size of the table and every band i in 0..halfSize-1 the
\* alpha of band i is floor(30 * i / halfSize) in exact integer arithmetic;
\* it is 0 for band 0, never decreases with i and never exceeds 30.
C8_AlphaPolicy ==
    size \in {48, 72, 96, 144, 192} =>
        /\ rpc \in {"font", "measure", "camera", "save", "done"} =>
               {shapes[n].band : n \in Drawn("gradient")} = 0..(size \div 2 - 1)
        /\ \A n \in Drawn("gradient") :
             /\ shapes[n].alpha = (30 * shapes[n].band) \div (size \div 2)
             /\ shapes[n].band = 0 => shapes[n].alpha = 0
             /\ shapes[n].alpha <= 30
             /\ \A m \in Drawn("gradient") :
                  shapes[m].band <= shapes[n].band => shapes[m].alpha <= shapes[n].alpha

C8_Witness ==
    /\ size = 48 /\ rpc = "font"
    /\ \E n \in Drawn("gradient") : shapes[n].band = 4 /\ shapes[n].alpha = 5
    /\ \E n \in Drawn("gradient") : shapes[n].band = 23 /\ shapes[n].alpha = 28

PostComposite == rpc \in {"font", "measure", "camera", "save", "done"}

C10_DrawingWellFormed ==
    /\ err = "none"
    /\ rpc # "raised"
    /\ \A n \in 1..Len(shapes) :
         shapes[n].kind \in {"badge", "gradient", "camera", "lens"} =>
             /\ shapes[n].box[1] <= shapes[n].box[3]
             /\ shapes[n].box[2] <= shapes[n].box[4]

C10_Witness ==
    /\ size = 1 /\ rpc = "done"
    /\ tbox[4] - tbox[2] > 0
    /\ Cardinality(Drawn("gradient")) = 0
    /\ Cardinality(Drawn("lens")) = 1

====
